---- MODULE Spec2Model ----
(***************************************************************************)
(* Sitemap traversal (sitemap_parser.py) and SEO probing (seo_analyzer.py) *)
(* as state machines.                                                      *)
(*                                                                         *)
(* URLs are opaque strings that the code only compares for equality, so a  *)
(* URL is modelled by a number and every document names a URL it is the    *)
(* first to mention by the least unused number; the seed sitemap is 0.     *)
(***************************************************************************)
EXTENDS Integers, Sequences, FiniteSets, TLC

\* ---------------------------------------------------------------- bounds
MaxSitemaps == 4
MaxLeafUrls == 2
MaxLocs == 3
\* loc entries in a document that is served compressed or under a .gz name
MaxGzLocs == 1
MaxCap == 2
MaxProbeUrls == 3
\* permits of the admission semaphore: asyncio.Semaphore(30) in the source,
\* scaled down so that more workers than permits exist
Concurrency == 2

\* ------------------------------------------------------------- traversal
VARIABLES
    max_urls,               \* parameter max_urls
    stop,                   \* what should_stop() returns when polled
    all_urls,               \* list of {'sitemap_url', 'source_sitemap'}
    seen_urls,
    to_process,
    processed_sitemaps,
    processed_sitemaps_set,
    errors,
    pc,                     \* "loop" (top of the while loop), "fetch" (in requests.get),
                            \* "urls" (in the for loop), "done"
    current_sitemap,
    urls,                   \* part of urls the for loop has yet to visit
    child_sitemaps,         \* part of child_sitemaps the for loop has yet to visit
    \* history of the run, read by the properties only
    fetches,                \* sitemap -> number of fetch_sitemap_content calls
    failed,                 \* sitemaps whose fetch returned an error message
    discovered,             \* sitemaps in the order they first entered to_process
    level,                  \* sitemap -> index level at which it was discovered (-1: not yet)
    listedBy,               \* leaf url -> sitemaps whose for loop visited it, in order
    backRef,                \* some child entry named a sitemap that was already processed
    bigDoc,                 \* some parsed document had more than max_urls leaf entries
    bigDistinctDoc          \* some parsed document had more than max_urls distinct leaf urls

crawlVars == <<max_urls, stop, all_urls, seen_urls, to_process, processed_sitemaps,
               processed_sitemaps_set, errors, pc, current_sitemap, urls, child_sitemaps,
               fetches, failed, discovered, level, listedBy, backRef, bigDoc,
               bigDistinctDoc>>

\* --------------------------------------------------------------- probing
VARIABLES
    p_urls,                 \* parameter urls of analyze_urls
    p_stop,                 \* what should_stop() returns when polled
    sem,                    \* free permits of sem
    tpc,                    \* task -> "created", "fetching", "sleeping", "done", "cancelled"
    attempt,                \* task -> loop variable of bounded_fetch
    res,                    \* task -> local res of bounded_fetch
    cancelReq,              \* t.cancel() was called on every task
    doneQueue,              \* finished tasks as_completed has yet to hand out
    results,
    completed,
    progress,               \* arguments progress_callback was called with, as <<completed, total>>
    mpc,                    \* analyze_urls: "start", "await", "returned"
    \* history of the run, read by the properties only
    probeLog,               \* task -> results fetch_url returned to it, in order
    finishOrder             \* tasks in the order in which bounded_fetch returned

probeVars == <<p_urls, p_stop, sem, tpc, attempt, res, cancelReq, doneQueue, results,
               completed, progress, mpc, probeLog, finishOrder>>

\* ------------------------------------------------- one call of a function
VARIABLES
    fn,                     \* "fetch_url", "fetch_sitemap_content" or "none"
    arg_url,                \* argument url
    arg_resp,               \* what the network answers to the call's request
    ret,                    \* the value returned
    cpc                     \* "call" (not yet returned), "returned", "idle"

callVars == <<fn, arg_url, arg_resp, ret, cpc>>

vars == <<crawlVars, probeVars, callVars>>

Sitemaps == 0 .. MaxSitemaps - 1
LeafUrls == 0 .. MaxLeafUrls - 1
\* Python's None where an error message is expected, and where bytes are
\* expected (None and b"" are both falsy, the only way the code reads them)
None == [url |-> -1, cause |-> "None"]
NoContent == <<>>

Range(s) == { s[i] : i \in DOMAIN s }
MaxOf(S) == CHOOSE x \in S : \A y \in S : y <= x
MinOf(S) == CHOOSE x \in S : \A y \in S : x <= y

\* ---- documents the network can return

LocEntries ==
    [parent : {"url"}, text : LeafUrls] \cup
    [parent : {"sitemap"}, text : Sitemaps] \cup
    [parent : {"other"}, text : {0}]

\* names new to the run are introduced in increasing order
FirstMention(locs, tag, known) ==
    \A i \in DOMAIN locs :
        locs[i].parent = tag =>
            locs[i].text <= MaxOf({known - 1} \cup
                                  { locs[j].text : j \in { k \in 1 .. i - 1 : locs[k].parent = tag } }) + 1

LocLists(maxLen, knownUrls, knownSitemaps) ==
    { locs \in UNION { [1 .. n -> LocEntries] : n \in 0 .. maxLen } :
        /\ FirstMention(locs, "url", knownUrls)
        /\ FirstMention(locs, "sitemap", knownSitemaps) }

\* What requests.get gives for one URL: the request fails, the status is not
\* 2xx, or a body arrives.  A body is empty, is plain XML (at least one byte,
\* not the gzip magic number) or starts with the gzip magic number;
\* gzip.decompress accepts it or raises BadGzipFile (an OSError), EOFError
\* (truncated stream) or zlib.error (corrupt stream).
BodyKinds == {"empty", "xml", "gzip", "gzip_bad_header", "gzip_truncated", "gzip_corrupt"}

ResponsesFor(knownUrls, knownSitemaps) ==
    [outcome : {"transport_error", "http_error"}, gz_suffix : {FALSE},
     kind : {"xml"}, locs : {<<>>}] \cup
    [outcome : {"ok"}, gz_suffix : BOOLEAN, kind : {"empty"}, locs : {<<>>}] \cup
    [outcome : {"ok"}, gz_suffix : {FALSE}, kind : {"xml"},
     locs : LocLists(MaxLocs, knownUrls, knownSitemaps)] \cup
    [outcome : {"ok"}, gz_suffix : {TRUE}, kind : {"xml"},
     locs : LocLists(MaxGzLocs, knownUrls, knownSitemaps)] \cup
    [outcome : {"ok"}, gz_suffix : BOOLEAN, kind : {"gzip"},
     locs : LocLists(MaxGzLocs, knownUrls, knownSitemaps)] \cup
    [outcome : {"ok"}, gz_suffix : BOOLEAN,
     kind : {"gzip_bad_header", "gzip_truncated", "gzip_corrupt"}, locs : {<<>>}]

\* the same, tabulated
ResponsesTable ==
    [ku \in 0 .. MaxLeafUrls, ks \in 0 .. MaxSitemaps |-> ResponsesFor(ku, ks)]

Responses(knownUrls, knownSitemaps) == ResponsesTable[knownUrls, knownSitemaps]

is_gzip(content) == content.kind \notin {"empty", "xml"}

\* gzip.decompress(content): "ok" or the exception raised; b"" decompresses
\* to b""
GzipDecompress(content) ==
    CASE content.kind \in {"empty", "gzip"} -> "ok"
      [] content.kind \in {"xml", "gzip_bad_header"} -> "BadGzipFile"
      [] content.kind = "gzip_truncated" -> "EOFError"
      [] content.kind = "gzip_corrupt" -> "zlib.error"

\* `except OSError`
IsOSError(exc) == exc = "BadGzipFile"

\* f"Error fetching {url}: {e}"; the exception's own text is left out
ErrorMsg(url, cause) == [url |-> url, cause |-> "Error fetching"]

\* <<content, error_msg>>; content is the list of loc elements in the bytes
fetch_sitemap_content(url, resp) ==
    IF resp.outcome # "ok" THEN <<NoContent, ErrorMsg(url, resp.outcome)>>
    ELSE IF is_gzip(resp) \/ resp.gz_suffix
         THEN LET d == GzipDecompress(resp)
              IN  IF d = "ok" \/ IsOSError(d) THEN <<resp.locs, None>>
                  ELSE <<NoContent, ErrorMsg(url, d)>>
         ELSE <<resp.locs, None>>

TextsOf(locs, tag) ==
    LET sel == SelectSeq(locs, LAMBDA e : e.parent = tag)
    IN  [i \in DOMAIN sel |-> sel[i].text]

\* <<final_urls, sitemap_index_urls>>
parse_sitemap(content) ==
    IF content = NoContent THEN << <<>>, <<>> >>
    ELSE <<TextsOf(content, "url"), TextsOf(content, "sitemap")>>

\* ---- extract_urls_recursive

LeafRecord(u, src) == [sitemap_url |-> u, source_sitemap |-> src]

\* variant: the visited set is never consulted
Visited_Never(visited, s) == FALSE

\* `current_sitemap in processed_sitemaps_set`, `child not in processed_sitemaps_set`
Visited(visited, s) == s \in visited

\* variant: the cap test is off by one
CapReached_OffByOne(acc) == Len(acc) > max_urls

\* `len(all_urls) >= max_urls` inside the for loop
CapReached(acc) == Len(acc) >= max_urls

\* variant: the while condition does not test the cap
LoopCond_NoCap == to_process # <<>>

\* variant: should_stop is never consulted
ShouldStop_Never == FALSE

\* `should_stop and should_stop()` at the top of the while body
ShouldStop == stop

\* the while condition
LoopCond == to_process # <<>> /\ Len(all_urls) < max_urls

\* variant: the head is read but not removed
PopHead_Peek(q) == q

\* to_process.pop(0), what is left of the list
PopHead(q) == Tail(q)

\* variant: the child is pushed on the front (a stack)
Enqueue_Front(q, child) == <<child>> \o q

\* to_process.append(child)
Enqueue(q, child) == Append(q, child)

\* variant: no test of seen_urls
AddFoundUrl_NoDedup(acc, seen, u, src) == Append(acc, LeafRecord(u, src))

\* variant: a later occurrence overwrites the provenance
AddFoundUrl_Overwrite(acc, seen, u, src) ==
    IF u \notin seen THEN Append(acc, LeafRecord(u, src))
    ELSE [i \in DOMAIN acc |-> IF acc[i].sitemap_url = u THEN LeafRecord(u, src) ELSE acc[i]]

\* the body of `for u in urls` up to the cap test
AddFoundUrl(acc, seen, u, src) ==
    IF u \notin seen THEN Append(acc, LeafRecord(u, src)) ELSE acc

\* variant: the popped sitemap is not recorded
MarkProcessed_Skip(ps, s) == ps

\* processed_sitemaps.append(current_sitemap), before the fetch
MarkProcessed(ps, s) == Append(ps, s)

\* errors.append(error_msg)
ErrorsAfterFailure(errs, msg) == Append(errs, msg)

\* variant: a failed fetch ends the traversal
PcAfterFailure_Abort == "done"

\* `continue` after a failed fetch
PcAfterFailure == "loop"

\* the whole of `for child in child_sitemaps`
RECURSIVE EnqueueChildren(_, _, _)
EnqueueChildren(q, cs, visited) ==
    IF cs = <<>> THEN q
    ELSE EnqueueChildren(IF ~Visited(visited, Head(cs)) THEN Enqueue(q, Head(cs)) ELSE q,
                         Tail(cs), visited)

\* history: the order in which sitemaps first enter to_process
RECURSIVE DiscoverAll(_, _, _)
DiscoverAll(d, cs, visited) ==
    IF cs = <<>> THEN d
    ELSE DiscoverAll(IF Head(cs) \notin visited /\ Head(cs) \notin Range(d)
                     THEN Append(d, Head(cs)) ELSE d,
                     Tail(cs), visited)

\* history: a sitemap's level is one more than the least level of a document
\* that queued it
RECURSIVE LevelAll(_, _, _, _)
LevelAll(lv, cs, visited, cur) ==
    IF cs = <<>> THEN lv
    ELSE LevelAll(IF Head(cs) \notin visited
                     /\ (lv[Head(cs)] = -1 \/ lv[Head(cs)] > lv[cur] + 1)
                  THEN [lv EXCEPT ![Head(cs)] = lv[cur] + 1] ELSE lv,
                  Tail(cs), visited, cur)

Known == processed_sitemaps_set \cup Range(to_process)

CrawlInit ==
    /\ max_urls \in 1 .. MaxCap
    /\ stop = FALSE
    /\ all_urls = <<>>
    /\ seen_urls = {}
    /\ to_process = <<0>>
    /\ processed_sitemaps = <<>>
    /\ processed_sitemaps_set = {}
    /\ errors = <<>>
    /\ pc = "loop"
    /\ current_sitemap = 0
    /\ urls = <<>>
    /\ child_sitemaps = <<>>
    /\ fetches = [s \in Sitemaps |-> 0]
    /\ failed = {}
    /\ discovered = <<0>>
    /\ level = [s \in Sitemaps |-> IF s = 0 THEN 0 ELSE -1]
    /\ listedBy = [u \in LeafUrls |-> <<>>]
    /\ backRef = FALSE
    /\ bigDoc = FALSE
    /\ bigDistinctDoc = FALSE

\* should_stop starts to return True
RequestStop ==
    /\ pc # "done"
    /\ ~stop
    /\ stop' = TRUE
    /\ UNCHANGED <<max_urls, all_urls, seen_urls, to_process, processed_sitemaps,
                   processed_sitemaps_set, errors, pc, current_sitemap, urls, child_sitemaps,
                   fetches, failed, discovered, level, listedBy, backRef, bigDoc,
                   bigDistinctDoc>>
    /\ UNCHANGED probeVars
    /\ UNCHANGED callVars

\* the while condition is false: return
Return ==
    /\ pc = "loop"
    /\ ~LoopCond
    /\ pc' = "done"
    /\ UNCHANGED <<max_urls, stop, all_urls, seen_urls, to_process, processed_sitemaps,
                   processed_sitemaps_set, errors, current_sitemap, urls, child_sitemaps,
                   fetches, failed, discovered, level, listedBy, backRef, bigDoc,
                   bigDistinctDoc>>
    /\ UNCHANGED probeVars
    /\ UNCHANGED callVars

\* should_stop() is true at the top of the loop: break
Break ==
    /\ pc = "loop"
    /\ LoopCond
    /\ ShouldStop
    /\ pc' = "done"
    /\ UNCHANGED <<max_urls, stop, all_urls, seen_urls, to_process, processed_sitemaps,
                   processed_sitemaps_set, errors, current_sitemap, urls, child_sitemaps,
                   fetches, failed, discovered, level, listedBy, backRef, bigDoc,
                   bigDistinctDoc>>
    /\ UNCHANGED probeVars
    /\ UNCHANGED callVars

\* the popped sitemap was processed before: continue
SkipVisited ==
    /\ pc = "loop"
    /\ LoopCond
    /\ ~ShouldStop
    /\ Visited(processed_sitemaps_set, Head(to_process))
    /\ current_sitemap' = Head(to_process)
    /\ to_process' = PopHead(to_process)
    /\ UNCHANGED <<max_urls, stop, all_urls, seen_urls, processed_sitemaps,
                   processed_sitemaps_set, errors, pc, urls, child_sitemaps,
                   fetches, failed, discovered, level, listedBy, backRef, bigDoc,
                   bigDistinctDoc>>
    /\ UNCHANGED probeVars
    /\ UNCHANGED callVars

\* should_stop() is false and the popped sitemap is new: it is marked as
\* processed and requests.get is about to be called
PopAndMark ==
    /\ pc = "loop"
    /\ LoopCond
    /\ ~ShouldStop
    /\ ~Visited(processed_sitemaps_set, Head(to_process))
    /\ LET cur == Head(to_process)
       IN  /\ current_sitemap' = cur
           /\ to_process' = PopHead(to_process)
           /\ processed_sitemaps' = MarkProcessed(processed_sitemaps, cur)
           /\ processed_sitemaps_set' = processed_sitemaps_set \cup {cur}
    /\ pc' = "fetch"
    /\ UNCHANGED <<max_urls, stop, all_urls, seen_urls, errors, urls, child_sitemaps,
                   fetches, failed, discovered, level, listedBy, backRef, bigDoc,
                   bigDistinctDoc>>
    /\ UNCHANGED probeVars
    /\ UNCHANGED callVars

\* the fetch returns an error message: record it and continue
ProcessFail ==
    /\ pc = "fetch"
    /\ \E resp \in Responses(Cardinality(seen_urls), Cardinality(Known)) :
         LET cur == current_sitemap
             got == fetch_sitemap_content(cur, resp)
         IN  /\ got[2] # None
             /\ errors' = ErrorsAfterFailure(errors, got[2])
             /\ pc' = PcAfterFailure
             /\ fetches' = [fetches EXCEPT ![cur] = @ + 1]
             /\ failed' = failed \cup {cur}
    /\ UNCHANGED <<max_urls, stop, all_urls, seen_urls, to_process, processed_sitemaps,
                   processed_sitemaps_set, current_sitemap, urls, child_sitemaps,
                   discovered, level, listedBy, backRef, bigDoc, bigDistinctDoc>>
    /\ UNCHANGED probeVars
    /\ UNCHANGED callVars

\* the fetch returns content, which is parsed; a document without leaf URLs
\* goes on through `for child in child_sitemaps` to the top of the loop
ProcessOk ==
    /\ pc = "fetch"
    /\ \E resp \in Responses(Cardinality(seen_urls), Cardinality(Known)) :
         LET cur == current_sitemap
             got == fetch_sitemap_content(cur, resp)
             parsed == parse_sitemap(got[1])
             visited == processed_sitemaps_set
         IN  /\ got[2] = None
             /\ urls' = parsed[1]
             /\ fetches' = [fetches EXCEPT ![cur] = @ + 1]
             /\ bigDoc' = (bigDoc \/ Len(parsed[1]) > max_urls)
             /\ bigDistinctDoc' = (bigDistinctDoc \/ Cardinality(Range(parsed[1])) > max_urls)
             /\ IF parsed[1] # <<>>
                THEN /\ pc' = "urls"
                     /\ child_sitemaps' = parsed[2]
                     /\ UNCHANGED <<to_process, discovered, level, backRef>>
                ELSE /\ pc' = "loop"
                     /\ child_sitemaps' = <<>>
                     /\ to_process' = EnqueueChildren(to_process, parsed[2], visited)
                     /\ backRef' = (backRef \/ Range(parsed[2]) \cap visited # {})
                     /\ discovered' = DiscoverAll(discovered, parsed[2], visited)
                     /\ level' = LevelAll(level, parsed[2], visited, cur)
    /\ UNCHANGED <<max_urls, stop, all_urls, seen_urls, processed_sitemaps,
                   processed_sitemaps_set, current_sitemap, errors, failed, listedBy>>
    /\ UNCHANGED probeVars
    /\ UNCHANGED callVars

\* one iteration of `for u in urls`; the last one (the list is exhausted or
\* the cap is reached) goes on through `for child in child_sitemaps`
AddUrl ==
    /\ pc = "urls"
    /\ LET u == Head(urls)
           acc == AddFoundUrl(all_urls, seen_urls, u, current_sitemap)
           brk == u \notin seen_urls /\ CapReached(acc)
           rest == IF brk THEN <<>> ELSE Tail(urls)
       IN  /\ all_urls' = acc
           /\ seen_urls' = seen_urls \cup {u}
           /\ urls' = rest
           /\ listedBy' = [listedBy EXCEPT ![u] =
                              IF current_sitemap \in Range(@) THEN @
                              ELSE Append(@, current_sitemap)]
           /\ IF rest # <<>>
              THEN UNCHANGED <<pc, child_sitemaps, to_process, discovered, level, backRef>>
              ELSE /\ pc' = "loop"
                   /\ child_sitemaps' = <<>>
                   /\ backRef' = (backRef \/ Range(child_sitemaps) \cap processed_sitemaps_set # {})
                   /\ to_process' = EnqueueChildren(to_process, child_sitemaps,
                                                    processed_sitemaps_set)
                   /\ discovered' = DiscoverAll(discovered, child_sitemaps,
                                                processed_sitemaps_set)
                   /\ level' = LevelAll(level, child_sitemaps, processed_sitemaps_set,
                                        current_sitemap)
    /\ UNCHANGED <<max_urls, stop, processed_sitemaps, processed_sitemaps_set,
                   errors, current_sitemap, fetches, failed, bigDoc, bigDistinctDoc>>
    /\ UNCHANGED probeVars
    /\ UNCHANGED callVars

\* ------------------------------------------------------------- fetch_url

\* A probed URL is a string; the model keeps the part of a string that the
\* comparisons can tell apart: <<name, suffix>>.
UrlString(u) == <<u, "">>
NoneString == <<-1, "None">>
\* the string ""
EmptyString == <<-1, "">>
NoStatus == 0

\* variant: 308 is not taken for a redirect
RedirectCodes_No308 == {301, 302, 303, 307}

RedirectCodes == {301, 302, 303, 307, 308}
Statuses == {200, 301, 302, 303, 307, 308, 404}

\* href values a page can declare for the probed url: none, "", the url
\* itself, the url with a trailing slash, the url under the other scheme,
\* another url
CanonicalValues(url) ==
    {NoneString, EmptyString, url, <<url[1], "/">>, <<url[1], "https">>, <<url[1] + 1, "">>}

\* What the server and the network do with one GET: an exception raised by
\* session.get or while the body is streamed, or none; the status line and
\* headers; the tags found in the first MAX_BODY_SIZE bytes of the body.
ProbeResponses(url) ==
    [exc : {"None", "Timeout", "RequestsError", "Exception"},
     exc_at : {"get", "body"},
     status : Statuses,
     location : {NoneString, <<0, "http://x">>},
     binary : BOOLEAN,
     x_robots : BOOLEAN,
     meta_robots : BOOLEAN,
     canonical : CanonicalValues(url)]

FetchErrorOf(exc) ==
    CASE exc = "Timeout" -> "Timeout"
      [] exc = "RequestsError" -> "RequestError"
      [] OTHER -> "Error"

DefaultResult(url) ==
    [sitemap_url |-> url, final_status |-> NoStatus, redirect_location |-> NoneString,
     canonical |-> NoneString, canonical_match |-> FALSE, noindex |-> FALSE,
     noindex_source |-> "None", fetch_error |-> "None"]

\* `if result['canonical']`: None and "" are falsy
Truthy(str) == str # NoneString /\ str # EmptyString

\* variant: the comparison ignores a trailing slash and the scheme
CanonicalEquals_Normalized(canonical, url) == canonical[1] = url[1]

\* `result['canonical'] == url`
CanonicalEquals(canonical, url) == canonical = url

\* variant: the meta tag overwrites the source the header set
MetaSource_Overwrite(prev) == "Meta"

\* src = 'Meta'; if result['noindex_source']: src = 'Both'
MetaSource(prev) == IF prev # "None" THEN "Both" ELSE "Meta"

fetch_url(url, resp) ==
    LET r0 == DefaultResult(url)
        r1 == [r0 EXCEPT !.final_status = resp.status]
        hdr == IF resp.x_robots
               THEN [r1 EXCEPT !.noindex = TRUE, !.noindex_source = "Header"]
               ELSE r1
        meta == IF resp.meta_robots
                THEN [hdr EXCEPT !.noindex = TRUE,
                                 !.noindex_source = MetaSource(hdr.noindex_source)]
                ELSE hdr
        canon == [meta EXCEPT !.canonical = resp.canonical]
        match == IF Truthy(canon.canonical)
                 THEN [canon EXCEPT !.canonical_match = CanonicalEquals(canon.canonical, url)]
                 ELSE canon
    IN  IF resp.exc # "None" /\ resp.exc_at = "get"
        THEN [r0 EXCEPT !.fetch_error = FetchErrorOf(resp.exc)]
        ELSE IF resp.status \in RedirectCodes
        THEN [r1 EXCEPT !.redirect_location = resp.location]
        ELSE IF resp.binary
        THEN hdr
        ELSE IF resp.exc # "None"
        THEN [hdr EXCEPT !.fetch_error = FetchErrorOf(resp.exc)]
        ELSE match

\* ------------------------------------------- analyze_urls, bounded_fetch

\* the responses the workers of the scheduler meet
SchedResponses(url) ==
    { r \in [exc : {"None", "Timeout"}, exc_at : {"get", "body"}, status : {200},
             location : {NoneString}, binary : {FALSE}, x_robots : BOOLEAN,
             meta_robots : {FALSE}, canonical : {NoneString}] :
        /\ (r.exc = "None" => r.exc_at = "get" /\ ~r.x_robots)
        /\ (r.exc_at = "get" => ~r.x_robots)
        /\ (r.exc_at = "body" => r.x_robots) }

Tasks == DOMAIN p_urls

\* range(2)
MaxAttempts == 2

\* variant: no admission gate
CanAcquire_Always(s) == TRUE

\* `async with sem` can enter
CanAcquire(s) == s > 0

\* variant: range(3)
Returns_ThreeAttempts(a, r) == r.fetch_error = "None" \/ a + 1 >= 3

\* bounded_fetch leaves its loop with this result: `if not res['fetch_error']:
\* return res`, or range(2) is exhausted
Returns(a, r) == r.fetch_error = "None" \/ a + 1 >= MaxAttempts

Holding(t) == tpc[t] \in {"fetching", "sleeping"}

\* variant: a cancelled task keeps its permit
Released_Leak(s, held) == s

\* leaving `async with sem`, by return or by CancelledError
Released(s, held) == IF held THEN s + 1 ELSE s

\* variant: the callback is called before `completed += 1`
ProgressValue_Stale(done, total) == <<done - 1, total>>

\* `completed / total`, kept as the fraction <<numerator, denominator>>
ProgressValue(done, total) == <<done, total>>

\* variant: the finished tasks are handed out in submission order
NextDone_Submission(q) == MinOf(Range(q))

\* asyncio.as_completed hands out the task that finished first
NextDone(q) == Head(q)

\* variant: a result with fetch_error is not kept
Collected_DropFailed(acc, r) == IF r.fetch_error # "None" THEN acc ELSE Append(acc, r)

\* results.append(res)
Collected(acc, r) == Append(acc, r)

\* variant: tasks go on running after analyze_urls cancelled them and returned
TaskRuns_Uncancelled(t) == mpc # "start"

\* a task runs only while analyze_urls is suspended in `await coro`
TaskRuns(t) == mpc = "await" /\ ~cancelReq

ProbeInit ==
    /\ \E n \in 1 .. MaxProbeUrls : p_urls = [i \in 1 .. n |-> UrlString(i)]
    /\ p_stop = FALSE
    /\ sem = Concurrency
    /\ tpc = [t \in DOMAIN p_urls |-> "created"]
    /\ attempt = [t \in DOMAIN p_urls |-> 0]
    /\ res = [t \in DOMAIN p_urls |-> DefaultResult(NoneString)]
    /\ cancelReq = FALSE
    /\ doneQueue = <<>>
    /\ results = <<>>
    /\ completed = 0
    /\ progress = <<>>
    /\ mpc = "start"
    /\ probeLog = [t \in DOMAIN p_urls |-> <<>>]
    /\ finishOrder = <<>>

\* should_stop starts to return True
ProbeRequestStop ==
    /\ mpc # "returned"
    /\ ~p_stop
    /\ p_stop' = TRUE
    /\ UNCHANGED <<p_urls, sem, tpc, attempt, res, cancelReq, doneQueue, results,
                   completed, progress, mpc, probeLog, finishOrder>>
    /\ UNCHANGED crawlVars
    /\ UNCHANGED callVars

\* analyze_urls up to its first `await coro`: the tasks are created, none has
\* run, should_stop() is false
MainStart ==
    /\ mpc = "start"
    /\ ~p_stop
    /\ mpc' = "await"
    /\ UNCHANGED <<p_urls, p_stop, sem, tpc, attempt, res, cancelReq, doneQueue, results,
                   completed, progress, probeLog, finishOrder>>
    /\ UNCHANGED crawlVars
    /\ UNCHANGED callVars

\* should_stop() is true at the first test: cancel every task, break, return
MainStopAtStart ==
    /\ mpc = "start"
    /\ p_stop
    /\ cancelReq' = TRUE
    /\ mpc' = "returned"
    /\ UNCHANGED <<p_urls, p_stop, sem, tpc, attempt, res, doneQueue, results,
                   completed, progress, probeLog, finishOrder>>
    /\ UNCHANGED crawlVars
    /\ UNCHANGED callVars

\* `await coro` returns the next finished task's result: append it, count it,
\* report progress; then the for loop ends, or should_stop() is tested again
MainCollect ==
    /\ mpc = "await"
    /\ doneQueue # <<>>
    /\ LET t == NextDone(doneQueue)
       IN  /\ results' = Collected(results, res[t])
           /\ completed' = completed + 1
           /\ progress' = Append(progress, ProgressValue(completed + 1, Len(p_urls)))
           /\ doneQueue' = SelectSeq(doneQueue, LAMBDA o : o # t)
           /\ IF completed + 1 = Len(p_urls)
              THEN mpc' = "returned" /\ UNCHANGED cancelReq
              ELSE IF p_stop
              THEN mpc' = "returned" /\ cancelReq' = TRUE
              ELSE UNCHANGED <<mpc, cancelReq>>
    /\ UNCHANGED <<p_urls, p_stop, sem, tpc, attempt, res, probeLog, finishOrder>>
    /\ UNCHANGED crawlVars
    /\ UNCHANGED callVars

\* `async with sem`: the longest-waiting task enters and calls fetch_url
TaskAcquire(t) ==
    /\ TaskRuns(t)
    /\ tpc[t] = "created"
    /\ \A o \in Tasks : o < t => tpc[o] # "created"
    /\ CanAcquire(sem)
    /\ sem' = sem - 1
    /\ tpc' = [tpc EXCEPT ![t] = "fetching"]
    /\ UNCHANGED <<p_urls, p_stop, attempt, res, cancelReq, doneQueue, results,
                   completed, progress, mpc, probeLog, finishOrder>>
    /\ UNCHANGED crawlVars
    /\ UNCHANGED callVars

\* fetch_url returns and bounded_fetch returns its result, releasing the permit
TaskReturn(t) ==
    /\ TaskRuns(t)
    /\ tpc[t] = "fetching"
    /\ \E resp \in SchedResponses(p_urls[t]) :
         LET r == fetch_url(p_urls[t], resp)
         IN  /\ Returns(attempt[t], r)
             /\ res' = [res EXCEPT ![t] = r]
             /\ probeLog' = [probeLog EXCEPT ![t] = Append(@, r)]
    /\ tpc' = [tpc EXCEPT ![t] = "done"]
    /\ sem' = sem + 1
    /\ doneQueue' = Append(doneQueue, t)
    /\ finishOrder' = Append(finishOrder, t)
    /\ UNCHANGED <<p_urls, p_stop, attempt, cancelReq, results, completed, progress, mpc>>
    /\ UNCHANGED crawlVars
    /\ UNCHANGED callVars

\* fetch_url returns an error on the first attempt: asyncio.sleep(0.5)
TaskBackoff(t) ==
    /\ TaskRuns(t)
    /\ tpc[t] = "fetching"
    /\ \E resp \in SchedResponses(p_urls[t]) :
         LET r == fetch_url(p_urls[t], resp)
         IN  /\ ~Returns(attempt[t], r)
             /\ res' = [res EXCEPT ![t] = r]
             /\ probeLog' = [probeLog EXCEPT ![t] = Append(@, r)]
    /\ tpc' = [tpc EXCEPT ![t] = "sleeping"]
    /\ UNCHANGED <<p_urls, p_stop, sem, attempt, cancelReq, doneQueue, results,
                   completed, progress, mpc, finishOrder>>
    /\ UNCHANGED crawlVars
    /\ UNCHANGED callVars

\* the sleep ends: next iteration of `for attempt in range(2)`
TaskRetry(t) ==
    /\ TaskRuns(t)
    /\ tpc[t] = "sleeping"
    /\ attempt' = [attempt EXCEPT ![t] = @ + 1]
    /\ tpc' = [tpc EXCEPT ![t] = "fetching"]
    /\ UNCHANGED <<p_urls, p_stop, sem, res, cancelReq, doneQueue, results,
                   completed, progress, mpc, probeLog, finishOrder>>
    /\ UNCHANGED crawlVars
    /\ UNCHANGED callVars

\* CancelledError is raised at the task's await and leaves `async with sem`
TaskCancelled(t) ==
    /\ cancelReq
    /\ tpc[t] \in {"created", "fetching", "sleeping"}
    /\ sem' = Released(sem, Holding(t))
    /\ tpc' = [tpc EXCEPT ![t] = "cancelled"]
    /\ UNCHANGED <<p_urls, p_stop, attempt, res, cancelReq, doneQueue, results,
                   completed, progress, mpc, probeLog, finishOrder>>
    /\ UNCHANGED crawlVars
    /\ UNCHANGED callVars

\* ------------------------------------- fetch_url, fetch_sitemap_content
\* called once, on their own

\* fetch_url(session, url) is about to be called
CallInitFetchUrl ==
    /\ fn = "fetch_url"
    /\ arg_url = UrlString(1)
    /\ arg_resp \in ProbeResponses(arg_url)
    /\ ret = <<>>
    /\ cpc = "call"

\* fetch_sitemap_content(url) is about to be called for the seed sitemap
CallInitFetchSitemapContent ==
    /\ fn = "fetch_sitemap_content"
    /\ arg_url = 0
    /\ arg_resp \in Responses(0, 1)
    /\ ret = <<>>
    /\ cpc = "call"

CallFetchUrl ==
    /\ fn = "fetch_url"
    /\ cpc = "call"
    /\ ret' = fetch_url(arg_url, arg_resp)
    /\ cpc' = "returned"
    /\ UNCHANGED <<fn, arg_url, arg_resp>>
    /\ UNCHANGED <<crawlVars, probeVars>>

CallFetchSitemapContent ==
    /\ fn = "fetch_sitemap_content"
    /\ cpc = "call"
    /\ ret' = fetch_sitemap_content(arg_url, arg_resp)
    /\ cpc' = "returned"
    /\ UNCHANGED <<fn, arg_url, arg_resp>>
    /\ UNCHANGED <<crawlVars, probeVars>>

\* ------------------------------------------------------- specifications

\* no single call is under way
CallIdle ==
    /\ fn = "none"
    /\ arg_url = 0
    /\ arg_resp = <<>>
    /\ ret = <<>>
    /\ cpc = "idle"

\* probing at rest while the traversal runs
ProbeIdle ==
    /\ p_urls = <<>>
    /\ p_stop = FALSE
    /\ sem = Concurrency
    /\ tpc = <<>>
    /\ attempt = <<>>
    /\ res = <<>>
    /\ cancelReq = FALSE
    /\ doneQueue = <<>>
    /\ results = <<>>
    /\ completed = 0
    /\ progress = <<>>
    /\ mpc = "returned"
    /\ probeLog = <<>>
    /\ finishOrder = <<>>

\* the traversal at rest (it has returned an empty result) while probing runs
CrawlIdle ==
    /\ max_urls = 1
    /\ stop = FALSE
    /\ all_urls = <<>>
    /\ seen_urls = {}
    /\ to_process = <<>>
    /\ processed_sitemaps = <<>>
    /\ processed_sitemaps_set = {}
    /\ errors = <<>>
    /\ pc = "done"
    /\ current_sitemap = 0
    /\ urls = <<>>
    /\ child_sitemaps = <<>>
    /\ fetches = [s \in Sitemaps |-> 0]
    /\ failed = {}
    /\ discovered = <<>>
    /\ level = [s \in Sitemaps |-> -1]
    /\ listedBy = [u \in LeafUrls |-> <<>>]
    /\ backRef = FALSE
    /\ bigDoc = FALSE
    /\ bigDistinctDoc = FALSE

Init == CrawlInit /\ ProbeIdle /\ CallIdle

\* a step of extract_urls_recursive itself
Step == AddUrl \/ Return \/ Break \/ SkipVisited \/ PopAndMark \/ ProcessOk \/ ProcessFail

Next ==
    \/ RequestStop \/ Return \/ Break \/ SkipVisited \/ PopAndMark
    \/ ProcessFail \/ ProcessOk \/ AddUrl

Spec == Init /\ [][Next]_vars

\* every call made by the traversal returns and the loop goes on
FairSpec == Spec /\ WF_vars(Step)

ProbeStart == CrawlIdle /\ ProbeInit /\ CallIdle

ProbeNext ==
    \/ ProbeRequestStop \/ MainStart \/ MainStopAtStart \/ MainCollect
    \/ \E t \in Tasks : TaskAcquire(t)
    \/ \E t \in Tasks : TaskReturn(t)
    \/ \E t \in Tasks : TaskBackoff(t)
    \/ \E t \in Tasks : TaskRetry(t)
    \/ \E t \in Tasks : TaskCancelled(t)

ProbeSpec == ProbeStart /\ [][ProbeNext]_vars

\* a step of analyze_urls or of one of its tasks
ProbeStep ==
    \/ MainStart \/ MainStopAtStart \/ MainCollect
    \/ \E t \in Tasks : TaskAcquire(t)
    \/ \E t \in Tasks : TaskReturn(t)
    \/ \E t \in Tasks : TaskBackoff(t)
    \/ \E t \in Tasks : TaskRetry(t)
    \/ \E t \in Tasks : TaskCancelled(t)

\* the event loop runs whatever is ready and every fetch_url call returns
FairProbeSpec == ProbeSpec /\ WF_vars(ProbeStep)

CallStart == CrawlIdle /\ ProbeIdle /\ (CallInitFetchUrl \/ CallInitFetchSitemapContent)

CallNext == CallFetchUrl \/ CallFetchSitemapContent

CallSpec == CallStart /\ [][CallNext]_vars

\* ----------------------------------------------------------- properties

Last(q) == q[Len(q)]
Pos(q, x) == MinOf({ i \in DOMAIN q : q[i] = x })
NoRepeat(q) == \A i, j \in DOMAIN q : i # j => q[i] # q[j]
Sources == { all_urls[i].source_sitemap : i \in DOMAIN all_urls }

\* C1: at every point of the traversal no two records of all_urls have the
\* same sitemap_url, whatever duplicates the documents hold.
C1_NoDuplicateLeafUrls ==
    \A i, j \in DOMAIN all_urls :
        i # j => all_urls[i].sitemap_url # all_urls[j].sitemap_url

\* a leaf URL listed by two documents was met and the traversal has returned
C1_Witness ==
    /\ pc = "done"
    /\ \E u \in LeafUrls : Len(listedBy[u]) >= 2 /\ u \in seen_urls
    /\ Len(all_urls) >= 2

\* C2: processed_sitemaps holds no sitemap twice and no sitemap is fetched
\* more than once, also with self-references, cycles and a frontier that
\* holds a sitemap several times.
C2_EachSitemapOnce ==
    /\ NoRepeat(processed_sitemaps)
    /\ \A s \in Sitemaps : fetches[s] <= 1
    /\ Range(processed_sitemaps) = processed_sitemaps_set

\* a child entry pointed back to a processed sitemap, and the last sitemap
\* popped was one the frontier held a second time
C2_Witness ==
    /\ backRef
    /\ pc = "loop"
    /\ processed_sitemaps # <<>>
    /\ current_sitemap # Last(processed_sitemaps)
    /\ current_sitemap \in processed_sitemaps_set

\* C3: all_urls never holds more than max_urls records.
C3_CapRespected == Len(all_urls) <= max_urls

\* the cap is met while sitemaps are still queued
C3_Witness ==
    /\ Len(all_urls) = max_urls
    /\ to_process # <<>>
    /\ pc = "loop"
    /\ bigDoc

\* C4: the traversal terminates for every finite set of documents, cyclic
\* ones included, when every fetch returns.
C4_Terminates == <>(pc = "done")

\* the traversal has returned after a document pointed back to a processed one
C4_Witness ==
    /\ pc = "done"
    /\ backRef
    /\ to_process = <<>>
    /\ ~stop

\* C5 as stated: a parsed document with more than max_urls leaf entries makes
\* the traversal end with exactly max_urls records, and nothing is fetched
\* once the cap is reached.
C5_Original ==
    [][ /\ (pc' = "done" /\ bigDoc' => Len(all_urls') = max_urls')
        /\ (Len(all_urls) >= max_urls =>
                processed_sitemaps' = processed_sitemaps /\ fetches' = fetches) ]_vars

\* C5 amended: a parsed document with more than max_urls distinct leaf URLs
\* makes the traversal end with exactly max_urls records, and once the cap is
\* reached no sitemap is fetched or added to processed_sitemaps.
C5_CapEnforced ==
    [][ /\ (pc' = "done" /\ bigDistinctDoc' => Len(all_urls') = max_urls')
        /\ (Len(all_urls) >= max_urls =>
                processed_sitemaps' = processed_sitemaps /\ fetches' = fetches) ]_vars

\* the traversal returned at the cap with sitemaps left in the frontier
C5_Witness ==
    /\ pc = "done"
    /\ bigDistinctDoc
    /\ Len(all_urls) = max_urls
    /\ \E i \in DOMAIN to_process : to_process[i] \notin processed_sitemaps_set

\* C6: sitemaps are processed in the order in which they first entered the
\* frontier, hence level by level: levels never decrease along
\* processed_sitemaps and every sitemap of a lower level comes earlier.
C6_BreadthFirst ==
    /\ Len(processed_sitemaps) <= Len(discovered)
    /\ \A i \in DOMAIN processed_sitemaps : processed_sitemaps[i] = discovered[i]
    /\ \A i, j \in DOMAIN processed_sitemaps :
           i < j => level[processed_sitemaps[i]] <= level[processed_sitemaps[j]]
    /\ \A i \in DOMAIN processed_sitemaps : \A s \in Sitemaps :
           (level[s] # -1 /\ level[s] < level[processed_sitemaps[i]]) =>
               \E k \in 1 .. i - 1 : processed_sitemaps[k] = s

\* seed -> [1, 2], 1 -> [3]: 2 is processed before 1's child 3
C6_Witness ==
    /\ processed_sitemaps = <<0, 1, 2, 3>>
    /\ level[1] = 1 /\ level[2] = 1 /\ level[3] = 2
    /\ failed = {}

\* C7: a leaf URL is recorded once, with the sitemap that listed it first in
\* processing order as its source; later listings change nothing.
C7_FirstOccurrenceWins ==
    \A i \in DOMAIN all_urls :
        LET u == all_urls[i].sitemap_url
            src == all_urls[i].source_sitemap
        IN  /\ listedBy[u] # <<>>
            /\ src = listedBy[u][1]
            /\ Cardinality({ j \in DOMAIN all_urls : all_urls[j].sitemap_url = u }) = 1
            /\ \A k \in 2 .. Len(listedBy[u]) :
                   Pos(processed_sitemaps, src) < Pos(processed_sitemaps, listedBy[u][k])

\* two children of the index listed the same leaf URL
C7_Witness ==
    \E i \in DOMAIN all_urls :
        LET l == listedBy[all_urls[i].sitemap_url]
        IN  /\ Len(l) >= 2
            /\ level[l[1]] = 1 /\ level[l[2]] = 1
            /\ all_urls[i].source_sitemap = l[1]
            /\ pc = "done"

\* C8: a failed fetch appends one error message for the popped sitemap, loads
\* no leaf URLs and no children, leaves all_urls as it was and goes back to
\* the top of the loop; errors holds one message per failed sitemap and no
\* record names a failed sitemap as its source.
C8_FailureIsolated ==
    [][ /\ failed' # failed =>
            /\ pc = "fetch"
            /\ current_sitemap = Last(processed_sitemaps)
            /\ failed' = failed \cup {current_sitemap}
            /\ Len(errors') = Len(errors) + 1
            /\ SubSeq(errors', 1, Len(errors)) = errors
            /\ Last(errors').url = current_sitemap
            /\ all_urls' = all_urls
            /\ seen_urls' = seen_urls
            /\ to_process' = to_process
            /\ processed_sitemaps' = processed_sitemaps
            /\ urls' = <<>> /\ child_sitemaps' = <<>>
            /\ discovered' = discovered
            /\ pc' = "loop"
        /\ Len(errors') = Cardinality(failed')
        /\ Sources' \cap failed' = {} ]_vars

\* a sitemap processed after a failed one contributed a leaf URL, and so did
\* one processed before it
C8_Witness ==
    \E i, j, k \in DOMAIN processed_sitemaps :
        /\ i < j /\ j < k
        /\ processed_sitemaps[j] \in failed
        /\ processed_sitemaps[i] \in Sources
        /\ processed_sitemaps[k] \in Sources
        /\ Len(errors) = 1

\* C9: never more than Concurrency workers are inside fetch_url, first
\* attempts and retries counted together.
C9_ConcurrencyBound ==
    Cardinality({ t \in Tasks : tpc[t] = "fetching" }) <= Concurrency

\* every permit is in use by a network call, one of them a retry, while
\* another worker waits at the gate
C9_Witness ==
    /\ Cardinality({ t \in Tasks : tpc[t] = "fetching" }) = Concurrency
    /\ \E t \in Tasks : tpc[t] = "fetching" /\ attempt[t] = 1
    /\ \E t \in Tasks : tpc[t] = "created"
    /\ sem = 0

\* C10: fetch_url is called at most twice for a URL, a second time only after
\* a first result with fetch_error; a worker whose first result has a
\* fetch_error is asleep before, or inside, its second call unless it was
\* cancelled, and a finished one has made the second call; a worker returns
\* the result of its last call, which is the one collected.
C10_RetryOnce ==
    /\ \A t \in Tasks :
        /\ Len(probeLog[t]) <= 2
        /\ (Len(probeLog[t]) = 2 => probeLog[t][1].fetch_error # "None")
        /\ (Len(probeLog[t]) = 1 /\ probeLog[t][1].fetch_error # "None" =>
               \/ tpc[t] = "sleeping" /\ attempt[t] = 0
               \/ tpc[t] = "fetching" /\ attempt[t] = 1
               \/ tpc[t] = "cancelled")
        /\ (tpc[t] = "done" =>
               /\ probeLog[t] # <<>>
               /\ res[t] = Last(probeLog[t])
               /\ (probeLog[t][1].fetch_error # "None" => Len(probeLog[t]) = 2))
    /\ \A i \in DOMAIN results :
           \E t \in Tasks : tpc[t] = "done" /\ results[i] = Last(probeLog[t])

\* one URL failed once and then succeeded, another failed twice; both
\* results were collected
C10_Witness ==
    \E t, o \in Tasks :
        /\ tpc[t] = "done" /\ tpc[o] = "done"
        /\ Len(probeLog[t]) = 2 /\ Len(probeLog[o]) = 2
        /\ probeLog[t][2].fetch_error = "None"
        /\ probeLog[o][2].fetch_error # "None"
        /\ \E i, j \in DOMAIN results :
               /\ results[i] = probeLog[t][2] /\ results[i].fetch_error = "None"
               /\ results[j] = probeLog[o][2]

\* the task whose result r is
TaskOf(r) == CHOOSE t \in Tasks : p_urls[t] = r.sitemap_url

\* C11: without cancellation the progress callback is called once after each
\* collected result, Len(p_urls) times in all, with completed / total, a
\* strictly increasing sequence of values whose last one is exactly 1.
C11_ProgressReports ==
    /\ Len(progress) = completed
    /\ Len(progress) = Len(results)
    /\ \A i \in DOMAIN progress : progress[i] = <<i, Len(p_urls)>>
    /\ \A i, j \in DOMAIN progress :
           i < j => progress[i][1] * progress[j][2] < progress[j][1] * progress[i][2]
    /\ (mpc = "returned" /\ ~cancelReq =>
           /\ Len(progress) = Len(p_urls)
           /\ Last(progress)[1] = Last(progress)[2])

\* a batch of MaxProbeUrls URLs, one of them failing, ran to its end
C11_Witness ==
    /\ mpc = "returned"
    /\ ~cancelReq
    /\ Len(p_urls) = MaxProbeUrls
    /\ Len(progress) = MaxProbeUrls
    /\ \E i \in DOMAIN results : results[i].fetch_error # "None"

\* every task is finished or has taken its CancelledError
AllStopped == \A t \in Tasks : tpc[t] \in {"done", "cancelled"}

\* C12: a completion accepted while should_stop() is true is the last one,
\* and unless it is the batch's last it is followed by the cancellation of
\* every task; once the tasks are cancelled no result is accepted, no
\* progress is reported, no task calls fetch_url, starts an attempt or
\* finishes, every unfinished task ends cancelled, and results holds only
\* results of tasks that finished before.
C12_CancelStops ==
    /\ [][ /\ (cancelReq' /\ ~cancelReq => p_stop /\ mpc' = "returned" /\ tpc' = tpc)
           /\ (p_stop /\ results' # results => mpc' = "returned")
           /\ (p_stop /\ results' # results /\ Len(results') < Len(p_urls) => cancelReq')
           /\ (cancelReq =>
                  /\ results' = results /\ progress' = progress /\ completed' = completed
                  /\ probeLog' = probeLog /\ attempt' = attempt /\ res' = res
                  /\ \A t \in Tasks :
                         tpc'[t] # tpc[t] =>
                             tpc[t] \in {"created", "fetching", "sleeping"} /\ tpc'[t] = "cancelled")
           /\ \A i \in DOMAIN results' :
                  \E t \in Tasks : tpc'[t] = "done" /\ results'[i] = res'[t] ]_vars
    /\ (cancelReq ~> AllStopped)

\* the batch was cancelled after one result: a task that slept between its
\* attempts and a task that waited for a permit are cancelled
C12_Witness ==
    /\ cancelReq
    /\ Len(results) = 1
    /\ \E t \in Tasks : tpc[t] = "cancelled" /\ Len(probeLog[t]) = 1
    /\ \E t \in Tasks : tpc[t] = "cancelled" /\ probeLog[t] = <<>>

\* C13 as stated: when the batch is cancelled, the result of every task that
\* had finished is in results.
C13_ProducedResultsKept ==
    cancelReq =>
        \A t \in Tasks : tpc[t] = "done" => \E i \in DOMAIN results : results[i] = res[t]

\* C14: canonical_match is true exactly when canonical is not None and is the
\* very string url; a trailing slash or another scheme makes it false.
C14_CanonicalMatchStrict ==
    fn = "fetch_url" /\ cpc = "returned" =>
        /\ ret.canonical_match <=> (ret.canonical # NoneString /\ ret.canonical = arg_url)
        /\ (ret.canonical_match => arg_resp.canonical = arg_url)

\* the page declares the url with a trailing slash
C14_Witness ==
    /\ fn = "fetch_url" /\ cpc = "returned"
    /\ ret.fetch_error = "None"
    /\ ret.canonical = <<arg_url[1], "/">>
    /\ ~ret.canonical_match

\* C15: with a status in 301, 302, 303, 307, 308 the result holds the status
\* and the Location header and every other field keeps its default, whatever
\* the headers and the body are.
C15_RedirectShortCircuit ==
    fn = "fetch_url" /\ cpc = "returned" /\ ret.final_status \in {301, 302, 303, 307, 308} =>
        ret = [DefaultResult(arg_url) EXCEPT !.final_status = arg_resp.status,
                                            !.redirect_location = arg_resp.location]

\* a 308 whose headers and body carry noindex and a canonical link
C15_Witness ==
    /\ fn = "fetch_url" /\ cpc = "returned"
    /\ ret.final_status = 308
    /\ ret.redirect_location = <<0, "http://x">>
    /\ arg_resp.x_robots /\ arg_resp.meta_robots /\ arg_resp.canonical = arg_url

\* C16 as stated: a result with fetch_error has every other field but
\* final_status at its default.
C16_ErrorMeansDefaults ==
    fn = "fetch_url" /\ cpc = "returned" /\ ret.fetch_error # "None" =>
        ret = [DefaultResult(arg_url) EXCEPT !.fetch_error = ret.fetch_error,
                                            !.final_status = ret.final_status]

\* one result per URL, each the last one fetch_url returned for it
OneResultPerUrl ==
    /\ Len(results) = Len(p_urls)
    /\ \A t \in Tasks :
           /\ Cardinality({ i \in DOMAIN results : results[i].sitemap_url = p_urls[t] }) = 1
           /\ \E i \in DOMAIN results : results[i] = Last(probeLog[t])

\* C17: unless a stop is requested analyze_urls returns, and with one result
\* for every URL, the URLs whose two attempts failed included.
C17_AllUrlsAnswered ==
    /\ <>(p_stop \/ (mpc = "returned" /\ OneResultPerUrl))
    /\ [](mpc = "returned" /\ ~cancelReq => OneResultPerUrl)

\* no stop was requested; one URL failed twice, another succeeded
C17_Witness ==
    /\ mpc = "returned"
    /\ ~p_stop
    /\ Len(results) = MaxProbeUrls
    /\ \E i \in DOMAIN results :
           results[i].fetch_error # "None" /\ Len(probeLog[TaskOf(results[i])]) = 2
    /\ \E i \in DOMAIN results : results[i].fetch_error = "None"

\* C18: results holds the results in the order in which the tasks finished.
C18_CompletionOrder ==
    /\ NoRepeat(finishOrder)
    /\ Len(results) <= Len(finishOrder)
    /\ \A i \in DOMAIN results : results[i] = res[finishOrder[i]]
    /\ \A i, j \in DOMAIN results :
           i < j => Pos(finishOrder, TaskOf(results[i])) < Pos(finishOrder, TaskOf(results[j]))

\* the URL submitted first finished last, after one that had to wait for a
\* permit
C18_Witness ==
    /\ mpc = "returned"
    /\ Len(results) = MaxProbeUrls
    /\ TaskOf(results[1]) = 2
    /\ TaskOf(results[2]) = MaxProbeUrls
    /\ TaskOf(Last(results)) = 1

\* gzip.decompress is called and raises
DecompressFails(resp) ==
    /\ resp.outcome = "ok"
    /\ is_gzip(resp) \/ resp.gz_suffix
    /\ GzipDecompress(resp) # "ok"

\* C19 as stated: when the payload looks compressed and gzip.decompress
\* fails, whatever it raises, the raw bytes are returned and no error.
C19_GzipFallback ==
    fn = "fetch_sitemap_content" /\ cpc = "returned" /\ DecompressFails(arg_resp) =>
        ret = <<arg_resp.locs, None>>

\* C20: when should_stop() is true at the top of the loop, the traversal
\* returns with to_process, all_urls, processed_sitemaps and errors as they
\* are; a sitemap is popped and marked only by an iteration whose test of
\* should_stop() was false, and only that sitemap, the last one marked, is
\* fetched; a stop raised while it is fetched or inside the for loop lets
\* the iteration finish, and nothing more is popped, marked or fetched.
C20_StopAtLoopTop ==
    [][ /\ (stop /\ pc = "loop" =>
               /\ pc' = "done"
               /\ to_process' = to_process
               /\ all_urls' = all_urls
               /\ errors' = errors
               /\ fetches' = fetches)
        /\ (stop =>
               /\ processed_sitemaps' = processed_sitemaps
               /\ processed_sitemaps_set' = processed_sitemaps_set
               /\ current_sitemap' = current_sitemap
               /\ Len(to_process') >= Len(to_process)
               /\ SubSeq(to_process', 1, Len(to_process)) = to_process)
        /\ (pc' = "fetch" /\ pc # "fetch" => ~stop /\ pc = "loop")
        /\ (fetches' # fetches =>
               /\ pc = "fetch"
               /\ current_sitemap = Last(processed_sitemaps)
               /\ fetches' = [fetches EXCEPT ![current_sitemap] = @ + 1]) ]_vars

\* the traversal was stopped below the cap with an unprocessed sitemap queued
\* and a leaf URL collected
C20_Witness ==
    /\ pc = "done"
    /\ stop
    /\ Len(all_urls) < max_urls
    /\ all_urls # <<>>
    /\ \E i \in DOMAIN to_process : to_process[i] \notin processed_sitemaps_set

\* C21: without redirect and without fetch_error, a page that is not binary
\* gets noindex_source "Both", "Meta", "Header" or None according to which of
\* the X-Robots-Tag header and the meta robots tag carry noindex or none, and
\* noindex is true unless neither does; a binary one gets "Header" or None
\* from the header alone and keeps canonical None.
C21_NoindexSource ==
    fn = "fetch_url" /\ cpc = "returned" /\ ret.fetch_error = "None"
        /\ arg_resp.status \notin {301, 302, 303, 307, 308} =>
        LET h == arg_resp.x_robots
            m == arg_resp.meta_robots
        IN  IF arg_resp.binary
            THEN /\ ret.noindex = h
                 /\ ret.noindex_source = (IF h THEN "Header" ELSE "None")
                 /\ ret.canonical = NoneString
                 /\ ~ret.canonical_match
            ELSE /\ ret.noindex = (h \/ m)
                 /\ (ret.noindex_source = "Both" <=> h /\ m)
                 /\ (ret.noindex_source = "Meta" <=> ~h /\ m)
                 /\ (ret.noindex_source = "Header" <=> h /\ ~m)
                 /\ (ret.noindex_source = "None" <=> ~h /\ ~m)

\* an HTML page with noindex in the header and in the meta tag
C21_Witness ==
    /\ fn = "fetch_url" /\ cpc = "returned"
    /\ ~arg_resp.binary
    /\ ret.final_status = 200
    /\ ret.fetch_error = "None"
    /\ ret.noindex_source = "Both"

\* C22: a task takes a permit once, when it leaves the gate for its first
\* attempt, keeps it through that attempt, the sleep and the second attempt,
\* and gives it back once, when it finishes or is cancelled; a task cancelled
\* at the gate takes none.  The permits out are those of the tasks between
\* the gate and their end, every task ends, and then all permits are free.
C22_PermitHeldAndReleased ==
    /\ [](/\ sem >= 0
          /\ sem + Cardinality({ t \in Tasks : Holding(t) }) = Concurrency
          /\ (AllStopped => sem = Concurrency))
    /\ [][ \A t \in Tasks :
             /\ (tpc[t] = "created" /\ tpc'[t] # "created" =>
                    \/ tpc'[t] = "fetching" /\ attempt[t] = 0 /\ sem > 0 /\ sem' = sem - 1
                    \/ tpc'[t] = "cancelled" /\ sem' = sem)
             /\ (Holding(t) /\ tpc'[t] # tpc[t] =>
                    \/ tpc'[t] \in {"fetching", "sleeping"} /\ sem' = sem
                    \/ tpc'[t] \in {"done", "cancelled"} /\ sem' = sem + 1)
             /\ (tpc[t] \in {"done", "cancelled"} => tpc'[t] = tpc[t]) ]_vars
    /\ <>AllStopped

\* after a cancellation all permits are free again: one task returned after
\* two attempts, one was cancelled asleep between its attempts, one at the gate
C22_Witness ==
    /\ cancelReq
    /\ AllStopped
    /\ sem = Concurrency
    /\ \E t \in Tasks : tpc[t] = "done" /\ Len(probeLog[t]) = 2
    /\ \E t \in Tasks : tpc[t] = "cancelled" /\ Len(probeLog[t]) = 1 /\ attempt[t] = 0
    /\ \E t \in Tasks : tpc[t] = "cancelled" /\ probeLog[t] = <<>>

\* C23: the source_sitemap of every record is in processed_sitemaps and is
\* not a sitemap whose fetch returned an error, and errors is never longer
\* than processed_sitemaps.
C23_SourcesProcessed ==
    /\ \A i \in DOMAIN all_urls :
           /\ all_urls[i].source_sitemap \in Range(processed_sitemaps)
           /\ all_urls[i].source_sitemap \notin failed
           /\ fetches[all_urls[i].source_sitemap] = 1
    /\ Len(errors) <= Len(processed_sitemaps)
    /\ \A i \in DOMAIN errors : errors[i].url \in Range(processed_sitemaps)

\* inside the for loop of a child sitemap: a fetch has failed, a record names
\* the child as its source and another sitemap is still queued
C23_Witness ==
    /\ pc = "urls"
    /\ errors # <<>>
    /\ \E i \in DOMAIN all_urls : all_urls[i].source_sitemap = current_sitemap
    /\ current_sitemap # 0
    /\ \E i \in DOMAIN to_process : to_process[i] \notin processed_sitemaps_set

====
